---- MODULE Spec2Model ----
(***************************************************************************)
(* The cooking assistant's event pipeline: three producers (recipe-init,   *)
(* user input, timer expiry) feed rx.merge; every merged event is mapped   *)
(* through process_event and flattened by switch_latest.  The timer        *)
(* manager runs one rx.interval countdown per accepted set_timer call.     *)
(*                                                                         *)
(* Threads: the two producer threads (main thread for the recipe subject,  *)
(* the input thread for the user subject) and one scheduler thread per     *)
(* countdown.  Subject.on_next is synchronous, so a handler runs on the    *)
(* thread that published the event.                                        *)
(***************************************************************************)
EXTENDS Integers, Sequences, FiniteSets, TLC

\* ------------------------------------------------------------------ bounds
MaxPublished == 4      \* events the recipe and user producers publish in a run
MaxCountdowns == 2     \* countdowns started in a run (accepted set_timer calls)
MaxSegments == 3       \* pieces (plain text or markers) a parsed reply text is made of

\* ------------------------------------------------------- program constants
MAX_TIMER_DURATION_TEST == 10

\* ------------------------------------------------------------ input domains
Producers == {"recipe", "user"}
\* the three subjects merged into the event stream
Sources == {"recipe", "user", "timer"}
\* durations a direct SET_TIMER event carries in the conversation runs
Durations == {0, 2}
\* the set_timer requests of the timer runs (12 is above the test-mode cap)
TimerRequests == {<<"x", -1>>, <<"x", 0>>, <<"x", 2>>, <<"x", 3>>, <<"y", 12>>}
\* the user's messages, in turn
UserTexts == <<"hi", "bye">>
RecipeNames == {"soup"}

None == <<>>
Some(v) == <<v>>

\* Recipe objects the structured model call may return
RecipeSoup ==
    [recipe_name |-> "soup", ingredients |-> <<"water">>,
     instructions |-> <<"boil water", "serve">>]
Recipes == {RecipeSoup}

\* A free-text reply is a sequence of tokens: plain text, a timer marker
\* "[TIMER: <seconds> <id>]" or a step marker "[STEP: <index>]".
Txt(s) == [t |-> "text", s |-> s, duration |-> 0, id |-> "", n |-> 0]
TimerMarker(d, i) == [t |-> "timer", s |-> "", duration |-> d, id |-> i, n |-> 0]
StepMarker(k) == [t |-> "step", s |-> "", duration |-> 0, id |-> "", n |-> k]

ReplyTimer == <<Txt("boil "), TimerMarker(1, "x"), StepMarker(1), Txt(" now")>>
ReplyStepOut == <<StepMarker(3), Txt("later")>>
ReplyError == <<Txt("An error occurred: timeout")>>
TextReplies == {ReplyTimer, ReplyStepOut, ReplyError}

\* ------------------------------------------------------------------- state
VARIABLES
    state,          \* conversation_state_subject.value
    active_timers,  \* timer_manager.active_timers: id -> remaining seconds
    countdowns,     \* the rx.interval subscriptions started by set_timer
    IS_TEST_MODE,   \* timer_manager.IS_TEST_MODE
    lock,           \* holder of the merge operator's lock, or "free"
    pc,             \* position of each thread
    cur,            \* each thread's locals
    stream,         \* reply stream: "open" or "error"
    replies,        \* the reply stream's subscriber: values received, and the last one
    started,        \* history: number of handlers that have started
    completed,      \* history: number of handlers that have returned or raised
    answered,       \* history: number of finished handlers of events that call the model
    published,      \* history: number of on_next calls by the producers
    dropped,        \* history: number of published events that reached no handler
    last_init,      \* history: the last INIT_RECIPE handler's start and outcome
    closed,         \* the input subjects on which on_completed was called
    parser          \* response_parser: the locals of the call in progress

vars == <<state, active_timers, countdowns, IS_TEST_MODE, lock, pc, cur,
          stream, replies, started, completed, answered, published, dropped,
          last_init, closed, parser>>

\* the variables of the event pipeline (all but the parser's)
pipeline_vars == <<state, active_timers, countdowns, IS_TEST_MODE, lock, pc, cur,
                   stream, replies, started, completed, answered, published, dropped,
                   last_init, closed>>

\* ------------------------------------------------------------ dictionaries
EmptyDict == [k \in {} |-> 0]
Put(f, k, v) == [x \in (DOMAIN f) \cup {k} |-> IF x = k THEN v ELSE f[x]]
Pop(f, k) == [x \in (DOMAIN f) \ {k} |-> f[x]]

\* ------------------------------------------------------------------ events
Event(type, name, text, id, dur) ==
    [type |-> type, recipe_name |-> name, text |-> text,
     timer_id |-> id, duration |-> dur]
InitRecipe(name) == Event("INIT_RECIPE", name, "", "", 0)
UserMessage(text) == Event("ADD_USER_MESSAGE", "", text, "", 0)
SetTimer(id, dur) == Event("SET_TIMER", "", "", id, dur)
TimerExpired(id) == Event("TIMER_EXPIRED", "", "", id, 0)
Unknown == Event("UNKNOWN", "", "", "", 0)
NoEvent == Event("", "", "", "", 0)

\* ------------------------------------------------------- conversation store
initial_state ==
    [recipe |-> None, current_step |-> 0, messages |-> <<>>, timers |-> EmptyDict]

\* a log entry; ev is history: the number of the event whose handler wrote it
Msg(role, text, ev) == [role |-> role, text |-> text, ev |-> ev]


\* the in-place updaters of process_event, each applied through update_state
initial_updater(st, recipe_name_request, ev) ==
    [recipe |-> None,
     current_step |-> 0,
     messages |-> <<Msg("system", <<"Loading recipe for ", recipe_name_request, "...">>, ev)>>,
     timers |-> EmptyDict]

\* mutant: the user message is put in front of the log
user_message_prepended(st, payload, ev) ==
    [st EXCEPT !.messages = <<Msg("user", <<payload>>, ev)>> \o @]

user_message_updater(st, payload, ev) ==
    [st EXCEPT !.messages = Append(@, Msg("user", <<payload>>, ev))]

\* mutant: the expiry is logged twice
timer_expired_logged_twice(st, timer_id, ev) ==
    [st EXCEPT !.messages = @ \o <<Msg("system", <<"Timer '", timer_id, "' expired.">>, ev),
                                   Msg("system", <<"Timer '", timer_id, "' expired.">>, ev)>>,
               !.timers = IF timer_id \in DOMAIN @ THEN Pop(@, timer_id) ELSE @]

timer_expired_updater(st, timer_id, ev) ==
    [st EXCEPT !.messages = Append(@, Msg("system", <<"Timer '", timer_id, "' expired.">>, ev)),
               !.timers = IF timer_id \in DOMAIN @ THEN Pop(@, timer_id) ELSE @]

first_message_text(recipe_obj) ==
    <<"OK. I have the recipe for '", recipe_obj.recipe_name, "'. Let's start!\n\nStep 1: ",
      IF recipe_obj.instructions # <<>> THEN recipe_obj.instructions[1]
      ELSE "No instructions provided.">>

\* mutant: the first-step message is appended to the log
update_recipe_and_message_appending(st, recipe_obj, ev) ==
    [st EXCEPT !.recipe = Some(recipe_obj),
               !.messages = Append(@, Msg("assistant", first_message_text(recipe_obj), ev)),
               !.current_step = 0]

update_recipe_and_message(st, recipe_obj, ev) ==
    [st EXCEPT !.recipe = Some(recipe_obj),
               !.messages = <<Msg("assistant", first_message_text(recipe_obj), ev)>>,
               !.current_step = 0]

\* mutant: the error message replaces the log
add_error_msg_replacing(st, error_msg, ev) ==
    [st EXCEPT !.messages = <<Msg("system", error_msg, ev)>>]

add_error_msg_updater(st, error_msg, ev) ==
    [st EXCEPT !.messages = Append(@, Msg("system", error_msg, ev))]

\* mutant: the step update of the reply is ignored
add_assistant_msg_keeping_step(st, llm_response_cleaned, commands, ev) ==
    [st EXCEPT !.messages = Append(@, Msg("assistant", llm_response_cleaned, ev))]

\* mutant: the reply's first timer is mirrored into the state's timers
add_assistant_msg_mirroring_timers(st, llm_response_cleaned, commands, ev) ==
    [st EXCEPT !.messages = Append(@, Msg("assistant", llm_response_cleaned, ev)),
               !.current_step = IF commands.step_update # None
                                THEN commands.step_update[1] ELSE @,
               !.timers = IF commands.timers # <<>>
                          THEN Put(@, commands.timers[1].id, commands.timers[1].duration)
                          ELSE @]

add_assistant_msg_and_update_step_updater(st, llm_response_cleaned, commands, ev) ==
    [st EXCEPT !.messages = Append(@, Msg("assistant", llm_response_cleaned, ev)),
               !.current_step = IF commands.step_update # None
                                THEN commands.step_update[1] ELSE @]

update_state(updater_result) == state' = updater_result

\* ------------------------------------------------------------ prompt build
\* the list indices build_prompt_from_state reads (Python, zero-based)
PromptReads(st) ==
    IF st.recipe = None THEN {}
    ELSE LET n == Len(st.recipe[1].instructions)
             i == st.current_step
         IN  (IF 0 <= i /\ i < n THEN {i} ELSE {})
             \cup (IF i > 0 /\ n > 1 THEN {i - 1} ELSE {})
             \cup (IF i < n - 1 THEN {i + 1} ELSE {})

\* a Python list of length n accepts the indices -n .. n-1
ValidIndex(i, n) == -n <= i /\ i < n

\* build_prompt_from_state raises IndexError
BuildPromptRaises(st) ==
    /\ st.recipe # None
    /\ \E i \in PromptReads(st) : ~ValidIndex(i, Len(st.recipe[1].instructions))

\* ------------------------------------------------------------- model call
\* str() of a free-text reply
RECURSIVE Raw(_)
Raw(tokens) ==
    IF tokens = <<>> THEN <<>>
    ELSE LET k == Head(tokens)
             piece == CASE k.t = "text" -> <<k.s>>
                        [] k.t = "timer" -> <<"[TIMER: ", ToString(k.duration), " ", k.id, "]">>
                        [] OTHER -> <<"[STEP: ", ToString(k.n), "]">>
         IN  piece \o Raw(Tail(tokens))

RecipeResponse(r) == [kind |-> "Recipe", recipe |-> Some(r), tokens |-> <<>>]
StrResponse(tokens) == [kind |-> "str", recipe |-> None, tokens |-> tokens]
NoneResponse == [kind |-> "NoneType", recipe |-> None, tokens |-> <<>>]

\* what send_prompt can return: a Recipe or the caught failure's string when
\* response_format is Recipe; the reply's content (a string, or None) or the
\* caught failure's string otherwise
send_prompt(response_format) ==
    IF response_format = "Recipe"
    THEN {RecipeResponse(r) : r \in Recipes} \cup {StrResponse(ReplyError)}
    ELSE {StrResponse(tokens) : tokens \in TextReplies} \cup {NoneResponse}

\* ----------------------------------------------------------- marker parser
RECURSIVE CleanText(_)
CleanText(tokens) ==
    IF tokens = <<>> THEN <<>>
    ELSE (IF Head(tokens).t = "text" THEN <<Head(tokens).s>> ELSE <<>>)
         \o CleanText(Tail(tokens))

RECURSIVE TimerCommands(_)
TimerCommands(tokens) ==
    IF tokens = <<>> THEN <<>>
    ELSE (IF Head(tokens).t = "timer" /\ Head(tokens).duration > 0
          THEN <<[id |-> Head(tokens).id, duration |-> Head(tokens).duration]>>
          ELSE <<>>)
         \o TimerCommands(Tail(tokens))

RECURSIVE StepCommand(_)
StepCommand(tokens) ==
    IF tokens = <<>> THEN None
    ELSE LET rest == StepCommand(Tail(tokens))
         IN  IF rest # None THEN rest
             ELSE IF Head(tokens).t = "step" THEN Some(Head(tokens).n) ELSE None

parse_llm_response(tokens) ==
    [cleaned |-> CleanText(tokens),
     commands |-> [timers |-> TimerCommands(tokens), step_update |-> StepCommand(tokens)]]

\* ----------------------------------------------------------- timer manager
set_test_mode(is_test) == IS_TEST_MODE = is_test

\* mutant: the test-mode cap is not applied
actual_duration_uncapped(duration) == duration

\* the duration a countdown is created with
actual_duration(duration) ==
    IF IS_TEST_MODE /\ duration > MAX_TIMER_DURATION_TEST
    THEN MAX_TIMER_DURATION_TEST ELSE duration

\* a countdown: rx.interval(1).pipe(take(duration)) and its three callbacks.
\* tick counts the interval's emissions so far.  phase: "ticking", then
\* "completed" once on_completed has popped the id and is publishing the
\* expiry event, then "published" (the event was handled) or "dropped".
\* History: requested is the duration set_timer was called with; replaced
\* says a later set_timer for the same id ran while this countdown was ticking.
Countdown(timer_id, duration, requested) ==
    [id |-> timer_id, duration |-> duration, tick |-> 0, phase |-> "ticking",
     requested |-> requested, replaced |-> FALSE]

MarkReplaced(cds, timer_id) ==
    [i \in DOMAIN cds |->
        IF cds[i].id = timer_id /\ cds[i].phase = "ticking"
        THEN [cds[i] EXCEPT !.replaced = TRUE] ELSE cds[i]]

\* mutant: only a negative duration is rejected
set_timer_accepting_zero(timer_id, duration, reg) ==
    IF actual_duration(duration) < 0 THEN reg
    ELSE [active |-> Put(reg.active, timer_id, actual_duration(duration)),
          cds |-> Append(MarkReplaced(reg.cds, timer_id),
                         Countdown(timer_id, actual_duration(duration), duration))]

\* set_timer on the registry reg = [active, cds]: rejects a non-positive
\* duration, else records the remaining time and subscribes a new interval;
\* an interval already running for the id is left running
set_timer(timer_id, duration, reg) ==
    IF actual_duration(duration) <= 0 THEN reg
    ELSE [active |-> Put(reg.active, timer_id, actual_duration(duration)),
          cds |-> Append(MarkReplaced(reg.cds, timer_id),
                         Countdown(timer_id, actual_duration(duration), duration))]

\* the orchestrator's loop over the timers parsed from one reply
RECURSIVE set_timers(_, _)
set_timers(timers_to_set, reg) ==
    IF timers_to_set = <<>> THEN reg
    ELSE set_timers(Tail(timers_to_set),
                    set_timer(Head(timers_to_set).id, Head(timers_to_set).duration, reg))

Registry == [active |-> active_timers, cds |-> countdowns]

\* mutant: the decrement lags one tick behind
on_next_remaining_late(c) == c.duration - c.tick

\* on_next of the interval: the tick-th emission
on_next_remaining(c) == c.duration - 1 - c.tick

Tick(i) ==
    /\ i \in DOMAIN countdowns
    /\ countdowns[i].phase = "ticking"
    /\ countdowns[i].tick < countdowns[i].duration
    /\ active_timers' = Put(active_timers, countdowns[i].id, on_next_remaining(countdowns[i]))
    /\ countdowns' = [countdowns EXCEPT ![i].tick = @ + 1]
    /\ UNCHANGED <<parser, closed, last_init, state, IS_TEST_MODE, lock, pc, cur, stream, replies, started,
                   completed, answered, published, dropped>>

\* on_completed, up to the call of timer_event_subject.on_next
Complete(i) ==
    /\ i \in DOMAIN countdowns
    /\ countdowns[i].phase = "ticking"
    /\ countdowns[i].tick = countdowns[i].duration
    /\ active_timers' = Pop(active_timers, countdowns[i].id)
    /\ countdowns' = [countdowns EXCEPT ![i].phase = "completed"]
    /\ UNCHANGED <<parser, closed, last_init, state, IS_TEST_MODE, lock, pc, cur, stream, replies, started,
                   completed, answered, published, dropped>>

\* ------------------------------------------------------------ orchestrator
\* mutant: the sources' on_next calls are not serialized
MergeUnsynchronized == TRUE

\* rx.merge hands one source's on_next downstream at a time (one lock for
\* all three sources); a publisher waits while another thread is inside
MergeLockFree == lock = "free"

\* mutant: the observable of a handler without reply emits a confirmation
rx_empty_confirming == << <<"Timer set.">> >>

\* the inner observables process_event returns, as the values they emit
rx_empty == <<>>
rx_of(v) == <<v>>

\* switch_latest subscribes the inner observable, which emits at once on the
\* subscribing thread; the subscriber out = [count, last, ev] keeps the number
\* of values received, the last value and (history) the event it answers
RECURSIVE switch_latest(_, _, _)
switch_latest(out, inner, ev) ==
    IF inner = <<>> THEN out
    ELSE switch_latest([count |-> out.count + 1, last |-> Head(inner), ev |-> ev],
                       Tail(inner), ev)

NextEv == started + 1
\* a thread's locals: the event e it publishes, update_state's current_state
\* while a call of update_state is between its read and its on_next, and the
\* position step of that call in the handler; history: the event's number ev
\* and the conversation state before its handler started
Idle == [e |-> NoEvent, ev |-> 0, before |-> initial_state,
         current_state |-> None, step |-> 0]

\* a producer calls subject.on_next(event)
Publish(p, e) ==
    /\ pc[p] = "idle"
    /\ p \notin closed
    /\ published < MaxPublished
    /\ pc' = [pc EXCEPT ![p] = "blocked"]
    /\ cur' = [cur EXCEPT ![p] = [Idle EXCEPT !.e = e]]
    /\ published' = published + 1
    /\ UNCHANGED <<parser, closed, last_init, state, active_timers, countdowns, IS_TEST_MODE, lock, stream,
                   replies, started, completed, answered, dropped>>

PublishInitRecipe == \E n \in RecipeNames : Publish("recipe", InitRecipe(n))
PublishUserMessage == Publish("user", UserMessage(UserTexts[(published % Len(UserTexts)) + 1]))
PublishSetTimer == \E d \in Durations : Publish("user", SetTimer("x", d))
\* the timer runs publish one request more than the countdowns they may start
PublishSetTimerAny ==
    /\ published <= MaxCountdowns
    /\ \E r \in TimerRequests : Publish("user", SetTimer(r[1], r[2]))
PublishUnknown == Publish("user", Unknown)

\* the reply stream has failed: its subscriptions are disposed and the
\* event reaches no handler
Drop(p) ==
    /\ pc[p] = "blocked"
    /\ MergeLockFree
    /\ stream # "open"
    /\ pc' = [pc EXCEPT ![p] = "idle"]
    /\ cur' = [cur EXCEPT ![p] = Idle]
    /\ dropped' = dropped + 1
    /\ UNCHANGED <<parser, closed, last_init, state, active_timers, countdowns, IS_TEST_MODE, lock, stream,
                   replies, started, completed, answered, published>>

\* process_event, INIT_RECIPE, up to the model call (which blocks the thread)
StartInitRecipe(p) ==
    /\ pc[p] = "blocked"
    /\ MergeLockFree
    /\ stream = "open"
    /\ cur[p].e.type = "INIT_RECIPE"
    /\ update_state(initial_updater(state, cur[p].e.recipe_name, NextEv))
    /\ started' = NextEv
    /\ lock' = p
    /\ pc' = [pc EXCEPT ![p] = "llm"]
    /\ cur' = [cur EXCEPT ![p].ev = NextEv, ![p].before = state]
    /\ last_init' = [had_recipe |-> state.recipe # None, outcome |-> "pending"]
    /\ UNCHANGED <<parser, closed, active_timers, countdowns, IS_TEST_MODE, stream, replies,
                   completed, answered, published, dropped>>

\* process_event, ADD_USER_MESSAGE, up to the model call; an exception of
\* build_prompt_from_state leaves process_event, and map turns it into the
\* stream's on_error
StartUserMessage(p) ==
    /\ pc[p] = "blocked"
    /\ MergeLockFree
    /\ stream = "open"
    /\ cur[p].e.type = "ADD_USER_MESSAGE"
    /\ LET st1 == user_message_updater(state, cur[p].e.text, NextEv)
       IN  /\ update_state(st1)
           /\ started' = NextEv
           /\ IF BuildPromptRaises(st1)
              THEN /\ stream' = "error"
                   /\ completed' = completed + 1
                   /\ answered' = answered + 1
                   /\ pc' = [pc EXCEPT ![p] = "idle"]
                   /\ cur' = [cur EXCEPT ![p] = Idle]
                   /\ UNCHANGED lock
              ELSE /\ lock' = p
                   /\ pc' = [pc EXCEPT ![p] = "llm"]
                   /\ cur' = [cur EXCEPT ![p].ev = NextEv, ![p].before = state]
                   /\ UNCHANGED <<stream, completed, answered>>
    /\ UNCHANGED <<parser, closed, last_init, active_timers, countdowns, IS_TEST_MODE, replies, published,
                   dropped>>

\* process_event, SET_TIMER
HandleSetTimer(p) ==
    /\ pc[p] = "blocked"
    /\ MergeLockFree
    /\ stream = "open"
    /\ cur[p].e.type = "SET_TIMER"
    /\ LET reg == set_timer(cur[p].e.timer_id, cur[p].e.duration, Registry)
       IN  /\ Len(reg.cds) <= MaxCountdowns
           /\ active_timers' = reg.active
           /\ countdowns' = reg.cds
    /\ replies' = switch_latest(replies, rx_empty, NextEv)
    /\ started' = NextEv
    /\ completed' = completed + 1
    /\ pc' = [pc EXCEPT ![p] = "idle"]
    /\ cur' = [cur EXCEPT ![p] = Idle]
    /\ UNCHANGED <<parser, closed, last_init, state, IS_TEST_MODE, lock, stream, answered, published, dropped>>

\* process_event, an event type no branch matches
HandleUnknown(p) ==
    /\ pc[p] = "blocked"
    /\ MergeLockFree
    /\ stream = "open"
    /\ cur[p].e.type \notin {"INIT_RECIPE", "ADD_USER_MESSAGE", "SET_TIMER", "TIMER_EXPIRED"}
    /\ replies' = switch_latest(replies, rx_empty, NextEv)
    /\ started' = NextEv
    /\ completed' = completed + 1
    /\ pc' = [pc EXCEPT ![p] = "idle"]
    /\ cur' = [cur EXCEPT ![p] = Idle]
    /\ UNCHANGED <<parser, closed, last_init, state, active_timers, countdowns, IS_TEST_MODE, lock, stream,
                   answered, published, dropped>>

\* process_event, TIMER_EXPIRED, on the countdown's thread
HandleTimerExpired(i) ==
    /\ i \in DOMAIN countdowns
    /\ countdowns[i].phase = "completed"
    /\ "timer" \notin closed
    /\ MergeLockFree
    /\ stream = "open"
    /\ update_state(timer_expired_updater(state, countdowns[i].id, NextEv))
    /\ replies' = switch_latest(replies, rx_empty, NextEv)
    /\ started' = NextEv
    /\ completed' = completed + 1
    /\ countdowns' = [countdowns EXCEPT ![i].phase = "published"]
    /\ UNCHANGED <<parser, closed, last_init, active_timers, IS_TEST_MODE, lock, pc, cur, stream, answered,
                   published, dropped>>

DropTimerExpired(i) ==
    /\ i \in DOMAIN countdowns
    /\ countdowns[i].phase = "completed"
    /\ "timer" \notin closed
    /\ MergeLockFree
    /\ stream # "open"
    /\ countdowns' = [countdowns EXCEPT ![i].phase = "dropped"]
    /\ dropped' = dropped + 1
    /\ UNCHANGED <<parser, closed, last_init, state, active_timers, IS_TEST_MODE, lock, pc, cur, stream,
                   replies, started, completed, answered, published>>

\* process_event, INIT_RECIPE, from the return of the model call
FinishInitRecipe(p) ==
    /\ pc[p] = "llm"
    /\ cur[p].e.type = "INIT_RECIPE"
    /\ \E llm_response_raw \in send_prompt("Recipe") :
          IF llm_response_raw.kind = "Recipe"
          THEN LET recipe_obj == llm_response_raw.recipe[1]
               IN  /\ update_state(update_recipe_and_message(state, recipe_obj, cur[p].ev))
                   /\ replies' = switch_latest(replies, rx_of(first_message_text(recipe_obj)),
                                               cur[p].ev)
                   /\ last_init' = [last_init EXCEPT !.outcome = "installed"]
          ELSE LET error_msg == <<"Error: Failed to load recipe. Response: ">>
                                    \o Raw(llm_response_raw.tokens)
               IN  /\ update_state(add_error_msg_updater(state, error_msg, cur[p].ev))
                   /\ replies' = switch_latest(replies, rx_of(error_msg), cur[p].ev)
                   /\ last_init' = [last_init EXCEPT !.outcome = "failed"]
    /\ completed' = completed + 1
    /\ answered' = answered + 1
    /\ lock' = "free"
    /\ pc' = [pc EXCEPT ![p] = "idle"]
    /\ cur' = [cur EXCEPT ![p] = Idle]
    /\ UNCHANGED <<parser, closed, active_timers, countdowns, IS_TEST_MODE, stream, started,
                   published, dropped>>

\* process_event, ADD_USER_MESSAGE, from the return of the model call
FinishUserMessage(p) ==
    /\ pc[p] = "llm"
    /\ cur[p].e.type = "ADD_USER_MESSAGE"
    /\ \E llm_response_raw \in send_prompt("None") :
          IF llm_response_raw.kind = "str"
          THEN LET parsed == parse_llm_response(llm_response_raw.tokens)
                   reg == set_timers(parsed.commands.timers, Registry)
               IN  /\ Len(reg.cds) <= MaxCountdowns
                   /\ active_timers' = reg.active
                   /\ countdowns' = reg.cds
                   /\ update_state(add_assistant_msg_and_update_step_updater(
                          state, parsed.cleaned, parsed.commands, cur[p].ev))
                   /\ replies' = switch_latest(replies, rx_of(parsed.cleaned), cur[p].ev)
          ELSE LET error_msg == <<"Error: Unexpected response type from LLM: ",
                                  "<class '", llm_response_raw.kind, "'>">>
               IN  /\ update_state(add_error_msg_updater(state, error_msg, cur[p].ev))
                   /\ replies' = switch_latest(replies, rx_of(error_msg), cur[p].ev)
                   /\ UNCHANGED <<active_timers, countdowns>>
    /\ completed' = completed + 1
    /\ answered' = answered + 1
    /\ lock' = "free"
    /\ pc' = [pc EXCEPT ![p] = "idle"]
    /\ cur' = [cur EXCEPT ![p] = Idle]
    /\ UNCHANGED <<parser, closed, last_init, IS_TEST_MODE, stream, started, published, dropped>>

\* on_completed of one input subject, as rx.merge and switch_latest pass it
\* on: it waits for the handler in progress, and the reply stream completes
\* when the last open source completes
on_completed(src) ==
    /\ src \notin closed
    /\ MergeLockFree
    /\ closed' = closed \cup {src}
    /\ stream' = IF stream = "open" /\ closed' = Sources THEN "completed" ELSE stream

\* user_input_loop: "exit", "quit", end of input or an interrupt
ExitConversation ==
    /\ pc["user"] = "idle"
    /\ on_completed("user")
    /\ UNCHANGED <<parser, state, active_timers, countdowns, IS_TEST_MODE, lock, pc, cur,
                   replies, started, completed, answered, published, dropped, last_init>>

\* main, after input_thread.join(): recipe_input_subject.on_completed()
\* (the user subject's second on_completed has no effect)
CleanupRecipe ==
    /\ "user" \in closed
    /\ pc["recipe"] = "idle"
    /\ on_completed("recipe")
    /\ UNCHANGED <<parser, state, active_timers, countdowns, IS_TEST_MODE, lock, pc, cur,
                   replies, started, completed, answered, published, dropped, last_init>>

\* main: timer_event_subject.on_completed()
CleanupTimer ==
    /\ "recipe" \in closed
    /\ on_completed("timer")
    /\ UNCHANGED <<parser, state, active_timers, countdowns, IS_TEST_MODE, lock, pc, cur,
                   replies, started, completed, answered, published, dropped, last_init>>

\* a countdown publishes its expiry on the completed timer subject:
\* Subject.on_next does nothing
IgnoreTimerExpired(i) ==
    /\ i \in DOMAIN countdowns
    /\ countdowns[i].phase = "completed"
    /\ "timer" \in closed
    /\ countdowns' = [countdowns EXCEPT ![i].phase = "ignored"]
    /\ UNCHANGED <<parser, closed, last_init, state, active_timers, IS_TEST_MODE, lock, pc, cur, stream,
                   replies, started, completed, answered, published, dropped>>

\* ------------------------------------------------- update_state, step by step
\* The threads that reach update_state: the two producers and, standing for
\* the countdown threads, one thread publishing expiry events.
Threads == Producers \cup {"timer"}

\* the replies of the runs below carry no command
StoreReplies ==
    {tokens \in TextReplies :
        TimerCommands(tokens) = <<>> /\ StepCommand(tokens) = None}

PublishTimerExpired == Publish("timer", TimerExpired("x"))

\* number of update_state calls in the handler of an event
UpdateCalls(e) == IF e.type \in {"INIT_RECIPE", "ADD_USER_MESSAGE"} THEN 2 ELSE 1

\* the values the step-th updater of the handler of event c.e can return for
\* current_state st
UpdaterResults(c, st) ==
    CASE c.e.type = "INIT_RECIPE" /\ c.step = 1 ->
            {initial_updater(st, c.e.recipe_name, c.ev)}
      [] c.e.type = "INIT_RECIPE" /\ c.step = 2 ->
            {IF r.kind = "Recipe"
             THEN update_recipe_and_message(st, r.recipe[1], c.ev)
             ELSE add_error_msg_updater(
                      st, <<"Error: Failed to load recipe. Response: ">> \o Raw(r.tokens),
                      c.ev) : r \in send_prompt("Recipe")}
      [] c.e.type = "ADD_USER_MESSAGE" /\ c.step = 1 ->
            {user_message_updater(st, c.e.text, c.ev)}
      [] c.e.type = "ADD_USER_MESSAGE" /\ c.step = 2 ->
            {add_assistant_msg_and_update_step_updater(
                 st, parse_llm_response(tokens).cleaned,
                 parse_llm_response(tokens).commands, c.ev) : tokens \in StoreReplies}
      [] OTHER ->
            {timer_expired_updater(st, c.e.timer_id, c.ev)}

\* the merged stream hands the thread's event to process_event
EnterHandler(t) ==
    /\ pc[t] = "blocked"
    /\ MergeLockFree
    /\ stream = "open"
    /\ lock' = t
    /\ started' = NextEv
    /\ pc' = [pc EXCEPT ![t] = "read"]
    /\ cur' = [cur EXCEPT ![t].ev = NextEv, ![t].before = state, ![t].step = 1]
    /\ UNCHANGED <<parser, closed, last_init, state, active_timers, countdowns, IS_TEST_MODE, stream,
                   replies, completed, answered, published, dropped>>

\* update_state: current_state = get_state()
UpdateRead(t) ==
    /\ pc[t] = "read"
    /\ pc' = [pc EXCEPT ![t] = "write"]
    /\ cur' = [cur EXCEPT ![t].current_state = Some(state)]
    /\ UNCHANGED <<parser, closed, last_init, state, active_timers, countdowns, IS_TEST_MODE, lock,
                   stream, replies, started, completed, answered, published, dropped>>

\* update_state: new_state = updater(current_state) and
\* conversation_state_subject.on_next(new_state); after the handler's last
\* update its reply, the text just logged, is emitted and the handler returns
UpdateWrite(t) ==
    /\ pc[t] = "write"
    /\ \E new_state \in UpdaterResults(cur[t], cur[t].current_state[1]) :
          /\ state' = new_state
          /\ IF cur[t].step < UpdateCalls(cur[t].e)
             THEN /\ pc' = [pc EXCEPT ![t] = "read"]
                  /\ cur' = [cur EXCEPT ![t].current_state = None, ![t].step = @ + 1]
                  /\ UNCHANGED <<lock, replies, completed, answered>>
             ELSE /\ pc' = [pc EXCEPT ![t] = "idle"]
                  /\ cur' = [cur EXCEPT ![t] = Idle]
                  /\ lock' = IF lock = t THEN "free" ELSE lock
                  /\ completed' = completed + 1
                  /\ IF UpdateCalls(cur[t].e) = 2
                     THEN /\ replies' = switch_latest(
                                 replies,
                                 rx_of(new_state.messages[Len(new_state.messages)].text),
                                 cur[t].ev)
                          /\ answered' = answered + 1
                     ELSE /\ replies' = switch_latest(replies, rx_empty, cur[t].ev)
                          /\ UNCHANGED answered
    /\ UNCHANGED <<parser, closed, last_init, active_timers, countdowns, IS_TEST_MODE, stream,
                   started, published, dropped>>

\* --------------------------------------------- response_parser (utils module)
\* A reply text is a sequence of characters.  The texts parsed are made of at
\* most MaxSegments pieces: plain text, timer markers (well-formed, with a
\* zero, a negative or a non-numeric duration), "[STEP: n]" markers and a
\* "[STEP_UPDATE: n]" marker.  kind, id and n describe the piece (history).
ReplySegments ==
    <<
        [chars |-> <<"o", "k", " ">>,
         kind |-> "plain", id |-> <<>>, n |-> 0],
        [chars |-> <<"[", "t", "i", "m", "e", "r", ":", " ", "2", " ", "x", "]">>,
         kind |-> "plain", id |-> <<>>, n |-> 0],
        [chars |-> <<"[", "T", "I", "M", "E", "R", ":", " ", "5", " ", "x", "]">>,
         kind |-> "timer", id |-> <<"x">>, n |-> 5],
        [chars |-> <<"[", "T", "I", "M", "E", "R", ":", "1", "2", " ", "a", " ", "b", "]">>,
         kind |-> "timer", id |-> <<"a", " ", "b">>, n |-> 12],
        [chars |-> <<"[", "T", "I", "M", "E", "R", ":", " ", "0", " ", "x", "]">>,
         kind |-> "badtimer", id |-> <<>>, n |-> 0],
        [chars |-> <<"[", "T", "I", "M", "E", "R", ":", " ", "-", "2", " ", "x", "]">>,
         kind |-> "badtimer", id |-> <<>>, n |-> 0],
        [chars |-> <<"[", "T", "I", "M", "E", "R", ":", " ", "a", "b", "c", " ", "f", "o", "o", "]">>,
         kind |-> "badtimer", id |-> <<>>, n |-> 0],
        [chars |-> <<"[", "S", "T", "E", "P", ":", " ", "1", "]">>,
         kind |-> "step", id |-> <<>>, n |-> 1],
        [chars |-> <<"[", "S", "T", "E", "P", ":", " ", "0", "]">>,
         kind |-> "step", id |-> <<>>, n |-> 0],
        [chars |-> <<"[", "S", "T", "E", "P", "_", "U", "P", "D", "A", "T", "E", ":", " ", "2", "]">>,
         kind |-> "step_update", id |-> <<>>, n |-> 2]
    >>

RECURSIVE Concat(_)
Concat(pieces) ==
    IF pieces = <<>> THEN <<>> ELSE ReplySegments[Head(pieces)].chars \o Concat(Tail(pieces))

ReplyPieces ==
    UNION {[1..len -> DOMAIN ReplySegments] : len \in 0..MaxSegments}

\* Python's s[a:b]: indices are zero-based, a negative index counts from the
\* end, and an index outside the string is clamped
SliceIndex(i, n) ==
    IF i < 0 THEN (IF i + n < 0 THEN 0 ELSE i + n) ELSE (IF i > n THEN n ELSE i)
Slice(s, a, b) == SubSeq(s, SliceIndex(a, Len(s)) + 1, SliceIndex(b, Len(s)))

Whitespace == {" "}
Digits == {"0", "1", "2", "3", "4", "5", "6", "7", "8", "9"}

\* mutant: only the first character of a literal is compared
HasPrefixFirstChar(s, i, lit) == i < Len(s) /\ s[i + 1] = lit[1]

HasPrefix(s, i, lit) ==
    i + Len(lit) <= Len(s) /\ Slice(s, i, i + Len(lit)) = lit

RECURSIVE SkipWhile(_, _, _)
SkipWhile(s, i, class) ==
    IF i < Len(s) /\ s[i + 1] \in class THEN SkipWhile(s, i + 1, class) ELSE i

RECURSIVE FindChar(_, _, _)
FindChar(s, i, c) ==
    IF i >= Len(s) THEN Len(s)
    ELSE IF s[i + 1] = c THEN i ELSE FindChar(s, i + 1, c)

\* int() of a run of digits
RECURSIVE int(_)
int(digits) ==
    IF digits = <<>> THEN 0
    ELSE 10 * int(SubSeq(digits, 1, Len(digits) - 1))
         + (CHOOSE d \in 0..9 : ToString(d) = digits[Len(digits)])

NoMatch == [start |-> -1, end |-> -1, group1 |-> <<>>, group2 |-> <<>>]

\* the match of \[TIMER:\s*(\d+)\s+([^\]]+)\] starting at index i, if any:
\* the digits run is maximal, the id ends at the first "]" after it, and \s+
\* takes all the whitespace it can while leaving one character to the id
TIMER_PATTERN(s, i) ==
    LET lit == <<"[", "T", "I", "M", "E", "R", ":">>
        j1 == SkipWhile(s, i + Len(lit), Whitespace)
        j2 == SkipWhile(s, j1, Digits)
        j3 == FindChar(s, j2, "]")
        k == SkipWhile(s, j2, Whitespace)
    IN  IF /\ HasPrefix(s, i, lit)
           /\ j2 > j1
           /\ j2 < Len(s) /\ s[j2 + 1] \in Whitespace
           /\ j3 < Len(s)
           /\ j3 - j2 >= 2
        THEN [start |-> i, end |-> j3 + 1, group1 |-> Slice(s, j1, j2),
              group2 |-> Slice(s, IF k < j3 THEN k ELSE j3 - 1, j3)]
        ELSE NoMatch

\* the match of \[STEP_UPDATE:\s*(\d+)\s*\] starting at index i, if any
STEP_UPDATE_PATTERN(s, i) ==
    LET lit == <<"[", "S", "T", "E", "P", "_", "U", "P", "D", "A", "T", "E", ":">>
        j1 == SkipWhile(s, i + Len(lit), Whitespace)
        j2 == SkipWhile(s, j1, Digits)
        j3 == SkipWhile(s, j2, Whitespace)
    IN  IF /\ HasPrefix(s, i, lit)
           /\ j2 > j1
           /\ j3 < Len(s) /\ s[j3 + 1] = "]"
        THEN [start |-> i, end |-> j3 + 1, group1 |-> Slice(s, j1, j2), group2 |-> <<>>]
        ELSE NoMatch

\* TIMER_PATTERN.finditer: the non-overlapping matches from index i on
RECURSIVE finditer(_, _)
finditer(s, i) ==
    IF i >= Len(s) THEN <<>>
    ELSE IF TIMER_PATTERN(s, i) # NoMatch
         THEN <<TIMER_PATTERN(s, i)>> \o finditer(s, TIMER_PATTERN(s, i).end)
         ELSE finditer(s, i + 1)

\* STEP_UPDATE_PATTERN.search: the first match from index i on
RECURSIVE search(_, _)
search(s, i) ==
    IF i >= Len(s) THEN NoMatch
    ELSE IF STEP_UPDATE_PATTERN(s, i) # NoMatch THEN STEP_UPDATE_PATTERN(s, i)
         ELSE search(s, i + 1)

\* mutant: the offset is not advanced after a removal
offset_static(offset, match) == offset

\* offset += (match.end() - match.start())
offset_after_removal(offset, match) == offset + (match.end - match.start)

\* the parser's locals.  response_text is the argument of
\* parse_and_trigger_all_markers; calls are the set_timer_func calls made,
\* step_events the events put on step_event_subject; timers_text is the value
\* parse_and_trigger_timers returned.  History: pieces, the text's make-up.
ParserIdle ==
    [phase |-> "idle", pieces |-> <<>>, response_text |-> <<>>, match_list |-> <<>>,
     next |-> 1, processed_text |-> <<>>, offset |-> 0, calls |-> <<>>,
     timers_text |-> <<>>, step_events |-> <<>>]

\* parse_and_trigger_timers up to the loop
ParserStart(pieces) ==
    [ParserIdle EXCEPT !.phase = "timers", !.pieces = pieces,
                       !.response_text = Concat(pieces),
                       !.match_list = finditer(Concat(pieces), 0),
                       !.processed_text = Concat(pieces)]

\* one iteration of the loop of parse_and_trigger_timers
TimerLoopIteration ==
    /\ parser.phase = "timers"
    /\ parser.next <= Len(parser.match_list)
    /\ LET match == parser.match_list[parser.next]
           duration == int(match.group1)
           start_index == match.start - parser.offset
           end_index == match.end - parser.offset
       IN  IF duration <= 0
           THEN parser' = [parser EXCEPT !.next = @ + 1]
           ELSE parser' =
                  [parser EXCEPT
                      !.next = @ + 1,
                      !.calls = Append(@, [id |-> match.group2, duration |-> duration]),
                      !.processed_text =
                          Slice(@, 0, start_index) \o Slice(@, end_index, Len(@)),
                      !.offset = offset_after_removal(@, match)]
    /\ UNCHANGED pipeline_vars

\* parse_and_trigger_timers returns processed_text
TimersReturn ==
    /\ parser.phase = "timers"
    /\ parser.next > Len(parser.match_list)
    /\ parser' = [parser EXCEPT !.phase = "step", !.timers_text = parser.processed_text]
    /\ UNCHANGED pipeline_vars

\* parse_and_trigger_step_update on the text parse_and_trigger_timers returned
parse_and_trigger_step_update ==
    /\ parser.phase = "step"
    /\ LET match == search(parser.processed_text, 0)
       IN  IF match = NoMatch
           THEN parser' = [parser EXCEPT !.phase = "done"]
           ELSE parser' =
                  [parser EXCEPT
                      !.phase = "done",
                      !.step_events = IF int(match.group1) <= 0 THEN @
                                      ELSE Append(@, int(match.group1)),
                      !.processed_text =
                          Slice(@, 0, match.start) \o Slice(@, match.end, Len(@))]
    /\ UNCHANGED pipeline_vars

\* ------------------------------------- the free-text reply, step by step
\* main publishes one InitRecipe, before the input thread starts
PublishFirstInitRecipe ==
    /\ published = 0
    /\ PublishInitRecipe

\* the input thread is started when that publish has returned, that is when
\* the INIT_RECIPE handler has finished
PublishUserMessageAfterInit ==
    /\ last_init.outcome \in {"installed", "failed"}
    /\ PublishUserMessage

\* process_event, a string reply, up to the end of the loop over
\* timers_to_set: the reply is parsed and its timers are started; the locals
\* llm_response_cleaned and commands (parsed) stay with the thread
TriggerTimers(p) ==
    /\ pc[p] = "llm"
    /\ cur[p].e.type = "ADD_USER_MESSAGE"
    /\ \E llm_response_raw \in send_prompt("None") :
          /\ llm_response_raw.kind = "str"
          /\ LET parsed == parse_llm_response(llm_response_raw.tokens)
                 reg == set_timers(parsed.commands.timers, Registry)
             IN  /\ Len(reg.cds) <= MaxCountdowns
                 /\ active_timers' = reg.active
                 /\ countdowns' = reg.cds
                 /\ cur' = [cur EXCEPT ![p] = ("parsed" :> parsed) @@ cur[p]]
    /\ pc' = [pc EXCEPT ![p] = "reply"]
    /\ UNCHANGED <<parser, closed, last_init, state, IS_TEST_MODE, lock, stream, replies, started,
                   completed, answered, published, dropped>>

\* process_event, a string reply, from update_state to the return
AppendReply(p) ==
    /\ pc[p] = "reply"
    /\ update_state(add_assistant_msg_and_update_step_updater(
           state, cur[p].parsed.cleaned, cur[p].parsed.commands, cur[p].ev))
    /\ replies' = switch_latest(replies, rx_of(cur[p].parsed.cleaned), cur[p].ev)
    /\ completed' = completed + 1
    /\ answered' = answered + 1
    /\ lock' = "free"
    /\ pc' = [pc EXCEPT ![p] = "idle"]
    /\ cur' = [cur EXCEPT ![p] = Idle]
    /\ UNCHANGED <<parser, closed, last_init, active_timers, countdowns, IS_TEST_MODE, stream, started,
                   published, dropped>>

\* process_event, a reply that is neither a string nor a Recipe
ReplyUnexpectedType(p) ==
    /\ pc[p] = "llm"
    /\ cur[p].e.type = "ADD_USER_MESSAGE"
    /\ \E llm_response_raw \in send_prompt("None") :
          /\ llm_response_raw.kind # "str"
          /\ LET error_msg == <<"Error: Unexpected response type from LLM: ",
                                "<class '", llm_response_raw.kind, "'>">>
             IN  /\ update_state(add_error_msg_updater(state, error_msg, cur[p].ev))
                 /\ replies' = switch_latest(replies, rx_of(error_msg), cur[p].ev)
    /\ completed' = completed + 1
    /\ answered' = answered + 1
    /\ lock' = "free"
    /\ pc' = [pc EXCEPT ![p] = "idle"]
    /\ cur' = [cur EXCEPT ![p] = Idle]
    /\ UNCHANGED <<parser, closed, last_init, active_timers, countdowns, IS_TEST_MODE, stream, started,
                   published, dropped>>

\* ------------------------------------------------------------ specification
Init ==
    /\ state = initial_state
    /\ active_timers = EmptyDict
    /\ countdowns = <<>>
    /\ set_test_mode(FALSE)
    /\ lock = "free"
    /\ pc = [p \in Producers |-> "idle"]
    /\ cur = [p \in Producers |-> Idle]
    /\ stream = "open"
    /\ replies = [count |-> 0, last |-> <<>>, ev |-> 0]
    /\ started = 0
    /\ completed = 0
    /\ answered = 0
    /\ published = 0
    /\ dropped = 0
    /\ last_init = [had_recipe |-> FALSE, outcome |-> "none"]
    /\ closed = {}
    /\ parser = ParserIdle

Next ==
    \/ PublishInitRecipe
    \/ PublishUserMessage
    \/ PublishSetTimer
    \/ PublishUnknown
    \/ \E p \in Producers : Drop(p)
    \/ \E p \in Producers : StartInitRecipe(p)
    \/ \E p \in Producers : StartUserMessage(p)
    \/ \E p \in Producers : HandleSetTimer(p)
    \/ \E p \in Producers : HandleUnknown(p)
    \/ \E p \in Producers : FinishInitRecipe(p)
    \/ \E p \in Producers : FinishUserMessage(p)
    \/ \E i \in 1..MaxCountdowns : Tick(i)
    \/ \E i \in 1..MaxCountdowns : Complete(i)
    \/ \E i \in 1..MaxCountdowns : HandleTimerExpired(i)
    \/ \E i \in 1..MaxCountdowns : DropTimerExpired(i)

Spec == Init /\ [][Next]_vars

\* The timer runs: the program started with or without --test, driven by
\* direct SET_TIMER events only.
InitTimers ==
    /\ state = initial_state
    /\ active_timers = EmptyDict
    /\ countdowns = <<>>
    /\ \E is_test \in BOOLEAN : set_test_mode(is_test)
    /\ lock = "free"
    /\ pc = [p \in Producers |-> "idle"]
    /\ cur = [p \in Producers |-> Idle]
    /\ stream = "open"
    /\ replies = [count |-> 0, last |-> <<>>, ev |-> 0]
    /\ started = 0
    /\ completed = 0
    /\ answered = 0
    /\ published = 0
    /\ dropped = 0
    /\ last_init = [had_recipe |-> FALSE, outcome |-> "none"]
    /\ closed = {}
    /\ parser = ParserIdle

NextTimers ==
    \/ PublishSetTimerAny
    \/ HandleSetTimer("user")
    \/ \E i \in 1..MaxCountdowns : Tick(i)
    \/ \E i \in 1..MaxCountdowns : Complete(i)
    \/ \E i \in 1..MaxCountdowns : HandleTimerExpired(i)

SpecTimers == InitTimers /\ [][NextTimers]_vars

\* The conversation runs with their end: the user leaves and main closes the
\* three subjects.
NextShutdown ==
    \/ PublishInitRecipe
    \/ PublishUserMessage
    \/ \E p \in Producers : Drop(p)
    \/ \E p \in Producers : StartInitRecipe(p)
    \/ \E p \in Producers : StartUserMessage(p)
    \/ \E p \in Producers : FinishInitRecipe(p)
    \/ \E p \in Producers : FinishUserMessage(p)
    \/ \E i \in 1..MaxCountdowns : Tick(i)
    \/ \E i \in 1..MaxCountdowns : Complete(i)
    \/ \E i \in 1..MaxCountdowns : HandleTimerExpired(i)
    \/ \E i \in 1..MaxCountdowns : DropTimerExpired(i)
    \/ \E i \in 1..MaxCountdowns : IgnoreTimerExpired(i)
    \/ ExitConversation
    \/ CleanupRecipe
    \/ CleanupTimer

SpecShutdown == Init /\ [][NextShutdown]_vars

\* The store runs: the three paths that update the conversation state, with
\* update_state's read and write as separate steps.
InitStore ==
    /\ state = initial_state
    /\ active_timers = EmptyDict
    /\ countdowns = <<>>
    /\ set_test_mode(FALSE)
    /\ lock = "free"
    /\ pc = [t \in Threads |-> "idle"]
    /\ cur = [t \in Threads |-> Idle]
    /\ stream = "open"
    /\ replies = [count |-> 0, last |-> <<>>, ev |-> 0]
    /\ started = 0
    /\ completed = 0
    /\ answered = 0
    /\ published = 0
    /\ dropped = 0
    /\ last_init = [had_recipe |-> FALSE, outcome |-> "none"]
    /\ closed = {}
    /\ parser = ParserIdle

NextStore ==
    \/ PublishInitRecipe
    \/ PublishUserMessage
    \/ PublishTimerExpired
    \/ \E t \in Threads : EnterHandler(t)
    \/ \E t \in Threads : UpdateRead(t)
    \/ \E t \in Threads : UpdateWrite(t)

SpecStore == InitStore /\ [][NextStore]_vars

\* The parser runs: parse_and_trigger_all_markers on one reply text.
InitParser ==
    /\ state = initial_state
    /\ active_timers = EmptyDict
    /\ countdowns = <<>>
    /\ set_test_mode(FALSE)
    /\ lock = "free"
    /\ pc = [p \in Producers |-> "idle"]
    /\ cur = [p \in Producers |-> Idle]
    /\ stream = "open"
    /\ replies = [count |-> 0, last |-> <<>>, ev |-> 0]
    /\ started = 0
    /\ completed = 0
    /\ answered = 0
    /\ published = 0
    /\ dropped = 0
    /\ last_init = [had_recipe |-> FALSE, outcome |-> "none"]
    /\ closed = {}
    /\ \E pieces \in ReplyPieces : parser = ParserStart(pieces)

NextParser ==
    \/ TimerLoopIteration
    \/ TimersReturn
    \/ parse_and_trigger_step_update

SpecParser == InitParser /\ [][NextParser]_vars

\* The reply runs: one recipe initialization as in main, then user messages
\* whose replies start timers, the handler's timer loop and its state update
\* as separate steps.
NextReply ==
    \/ PublishFirstInitRecipe
    \/ PublishUserMessageAfterInit
    \/ \E p \in Producers : Drop(p)
    \/ \E p \in Producers : StartInitRecipe(p)
    \/ \E p \in Producers : FinishInitRecipe(p)
    \/ \E p \in Producers : StartUserMessage(p)
    \/ \E p \in Producers : TriggerTimers(p)
    \/ \E p \in Producers : AppendReply(p)
    \/ \E p \in Producers : ReplyUnexpectedType(p)
    \/ \E i \in 1..MaxCountdowns : Tick(i)
    \/ \E i \in 1..MaxCountdowns : Complete(i)
    \/ \E i \in 1..MaxCountdowns : HandleTimerExpired(i)
    \/ \E i \in 1..MaxCountdowns : DropTimerExpired(i)

SpecReply == Init /\ [][NextReply]_vars


\* ------------------------------------------------------------------ claims
Log == state.messages
ExpiredText(id) == <<"Timer '", id, "' expired.">>
ExpiryMessages(id) ==
    Cardinality({k \in DOMAIN Log : Log[k].role = "system" /\ Log[k].text = ExpiredText(id)})
InHandler == {p \in Producers : pc[p] = "llm"}

\* C1: events of the merged stream are handled one at a time: a handler
\* starts only when every earlier handler has returned (model call, state
\* updates and reply included), whichever threads publish.
C1_OneEventAtATime ==
    /\ started <= completed + 1
    /\ Cardinality(InHandler) <= 1
    /\ \A p \in InHandler :
          /\ lock = p
          /\ cur[p].ev = started
          /\ completed = started - 1
          /\ replies.ev < cur[p].ev
    /\ InHandler = {} => completed = started

\* C1 witness: during a model call, another producer and a finished countdown
\* are both waiting to publish.
C1_Witness ==
    \E p \in Producers, q \in Producers, i \in DOMAIN countdowns :
        /\ pc[p] = "llm"
        /\ pc[q] = "blocked"
        /\ countdowns[i].phase = "completed"

\* C2: the message log is ordered by the events' arrival order, the entries
\* of one event are contiguous, and a user message precedes its reply.
C2_LogInArrivalOrder ==
    /\ \A i \in DOMAIN Log, j \in DOMAIN Log :
          i < j => /\ Log[i].ev <= Log[j].ev
                   /\ Log[i].ev = Log[j].ev => ~(Log[i].role = "assistant" /\ Log[j].role = "user")
    /\ \A i \in DOMAIN Log : Log[i].ev \in 1..started

\* C2 witness: user message, its reply, a timer expiry, then the next user
\* message, in that order in the log.
C2_Witness ==
    \E i \in DOMAIN Log, j \in DOMAIN Log, k \in DOMAIN Log, l \in DOMAIN Log :
        /\ i < j /\ j < k /\ k < l
        /\ Log[i].role = "user" /\ Log[i].text = <<"hi">>
        /\ Log[j].role = "assistant" /\ Log[j].ev = Log[i].ev
        /\ Log[k].role = "system" /\ Log[k].text = ExpiredText("x")
        /\ Log[l].role = "user" /\ Log[l].text = <<"bye">>

\* C3 (as claimed): a countdown replaced by a later set_timer for the same id
\* never publishes an expiry event.
C3_ReplacedNeverExpires ==
    \A i \in DOMAIN countdowns :
        countdowns[i].replaced => countdowns[i].phase # "published"

UniqueId(i) ==
    \A j \in DOMAIN countdowns : j # i => countdowns[j].id # countdowns[i].id

\* C4: a timer whose id no other timer uses, created with duration d, shows
\* remaining d - k after its k-th tick whatever the other timers do; after
\* its d-th tick its id leaves the registry and exactly one expiry event for
\* the id is handled.
C4_IndependentCountdowns ==
    \A i \in DOMAIN countdowns :
        UniqueId(i) =>
            LET c == countdowns[i]
            IN  /\ c.duration > 0
                /\ c.tick \in 0..c.duration
                /\ c.phase = "ticking" =>
                      /\ c.id \in DOMAIN active_timers
                      /\ active_timers[c.id] = c.duration - c.tick
                /\ c.phase # "ticking" =>
                      /\ c.tick = c.duration
                      /\ c.id \notin DOMAIN active_timers
                /\ ExpiryMessages(c.id) = IF c.phase = "published" THEN 1 ELSE 0

\* C4 witness: two timers with distinct ids, one expired and handled, the
\* other in the middle of its countdown.
C4_Witness ==
    \E i \in DOMAIN countdowns, j \in DOMAIN countdowns :
        /\ countdowns[i].id # countdowns[j].id
        /\ countdowns[i].phase = "published"
        /\ countdowns[j].phase = "ticking"
        /\ countdowns[j].tick >= 1

\* C5: in test mode no remaining time in the registry exceeds the cap, and a
\* timer requested above the cap is created with the cap as its duration and
\* expires after exactly that many ticks.
C5_TestModeCap ==
    IS_TEST_MODE =>
        /\ \A id \in DOMAIN active_timers : active_timers[id] <= MAX_TIMER_DURATION_TEST
        /\ \A i \in DOMAIN countdowns :
              countdowns[i].requested > MAX_TIMER_DURATION_TEST =>
                  /\ countdowns[i].duration = MAX_TIMER_DURATION_TEST
                  /\ countdowns[i].tick <= MAX_TIMER_DURATION_TEST
                  /\ countdowns[i].phase # "ticking" =>
                        countdowns[i].tick = MAX_TIMER_DURATION_TEST
                  /\ (countdowns[i].phase = "ticking" /\ UniqueId(i)) =>
                        active_timers[countdowns[i].id]
                            = MAX_TIMER_DURATION_TEST - countdowns[i].tick

\* C5 witness: in test mode a timer requested above the cap has expired and
\* its event was handled.
C5_Witness ==
    /\ IS_TEST_MODE
    /\ \E i \in DOMAIN countdowns :
          /\ countdowns[i].requested > MAX_TIMER_DURATION_TEST
          /\ countdowns[i].phase = "published"

RejectedSetTimerStep(p) ==
    /\ pc[p] = "blocked"
    /\ cur[p].e.type = "SET_TIMER"
    /\ cur[p].e.duration <= 0
    /\ pc'[p] = "idle"
    /\ started' = started + 1

\* C6: handling a set_timer request with duration <= 0 changes neither the
\* registry nor the countdowns (nor the conversation state), and no countdown,
\* hence no expiry event, ever stems from such a request.
C6_NonPositiveRejected ==
    [][/\ \A p \in Producers :
             RejectedSetTimerStep(p) => UNCHANGED <<active_timers, countdowns, state>>
       /\ \A i \in DOMAIN countdowns' : countdowns'[i].requested > 0]_vars

\* C6 witness: two set_timer requests handled, one of them rejected, while
\* the accepted one for the same id "x" is still counting down untouched.
C6_Witness ==
    /\ started = 2
    /\ completed = 2
    /\ Len(countdowns) = 1
    /\ countdowns[1].id = "x"
    /\ countdowns[1].phase = "ticking"
    /\ active_timers = [k \in {"x"} |-> countdowns[1].duration - countdowns[1].tick]

\* C7 (as claimed): every finished handler of an INIT_RECIPE or
\* ADD_USER_MESSAGE event has emitted exactly one reply, and no other
\* handler has emitted any.
C7_OneReplyPerModelEvent == replies.count = answered

\* C8 (as claimed): no event published on an input source is discarded
\* unhandled.
C8_NoEventDropped == dropped = 0

\* C9 (as claimed): the reply stream never terminates with an error.
C9_StreamNeverFails == stream = "open"

InitFailedStep(p) ==
    /\ pc[p] = "llm"
    /\ cur[p].e.type = "INIT_RECIPE"
    /\ pc'[p] = "idle"
    /\ last_init'.outcome = "failed"

\* C10 (as claimed): when the model call of INIT_RECIPE fails, the state
\* after the event is the state before the event (recipe, current_step, log)
\* with one system message appended.
C10_FailedInitKeepsPriorState ==
    [][\A p \in Producers :
          InitFailedStep(p) =>
              /\ state'.recipe = cur[p].before.recipe
              /\ state'.current_step = cur[p].before.current_step
              /\ Len(state'.messages) = Len(cur[p].before.messages) + 1
              /\ SubSeq(state'.messages, 1, Len(cur[p].before.messages))
                    = cur[p].before.messages
              /\ state'.messages[Len(state'.messages)].role = "system"]_vars

\* C10 (amended): when the model call of INIT_RECIPE fails, no recipe is
\* installed and the state is the reset state the handler wrote before the
\* call (no recipe, step 0, no timers, a log holding only the loading
\* message) with one system error message appended.
C10_FailedInitLeavesResetState ==
    [][\A p \in Producers :
          InitFailedStep(p) =>
              /\ state'.recipe = None
              /\ state'.current_step = 0
              /\ state'.timers = EmptyDict
              /\ Len(state'.messages) = 2
              /\ state'.messages[1]
                    = Msg("system", <<"Loading recipe for ", cur[p].e.recipe_name, "...">>,
                          cur[p].ev)
              /\ state'.messages[2].role = "system"
              /\ state'.messages[2].text[1] = "Error: Failed to load recipe. Response: "
              /\ state' = [state EXCEPT !.messages = Append(@, state'.messages[2])]]_vars

\* C10 witness: an INIT_RECIPE whose model call failed, handled while a
\* recipe was loaded, has left the state without a recipe.
C10_Witness ==
    /\ last_init.outcome = "failed"
    /\ last_init.had_recipe
    /\ state.recipe = None
    /\ Len(state.messages) = 2

InitInstalledStep(p) ==
    /\ pc[p] = "llm"
    /\ cur[p].e.type = "INIT_RECIPE"
    /\ pc'[p] = "idle"
    /\ last_init'.outcome = "installed"

\* C11 (as claimed): when the model call of INIT_RECIPE returns a recipe, the
\* state holds it, current_step is 0, timers is empty, the first-step
\* assistant message is appended after the entries the reset wrote, and that
\* text is the single value emitted.
C11_InstalledInitAppendsFirstStep ==
    [][\A p \in Producers :
          InitInstalledStep(p) =>
              \E r \in Recipes :
                  /\ state'.recipe = Some(r)
                  /\ state'.current_step = 0
                  /\ state'.timers = EmptyDict
                  /\ state'.messages
                        = <<Msg("system", <<"Loading recipe for ", cur[p].e.recipe_name, "...">>,
                                cur[p].ev),
                            Msg("assistant", first_message_text(r), cur[p].ev)>>
                  /\ replies'.count = replies.count + 1
                  /\ replies'.last = first_message_text(r)]_vars

\* C11 (amended): when the model call of INIT_RECIPE returns a recipe, the
\* state holds it, current_step is 0, timers is empty, the log is replaced by
\* the first-step assistant message alone (the reset's loading message is
\* gone), and that text is the single value emitted.
C11_InstalledInitReplacesLog ==
    [][\A p \in Producers :
          InitInstalledStep(p) =>
              \E r \in Recipes :
                  /\ state'.recipe = Some(r)
                  /\ state'.current_step = 0
                  /\ state'.timers = EmptyDict
                  /\ state'.messages = <<Msg("assistant", first_message_text(r), cur[p].ev)>>
                  /\ replies'.count = replies.count + 1
                  /\ replies'.ev = cur[p].ev
                  /\ replies'.last = first_message_text(r)]_vars

\* C11 witness: a second INIT_RECIPE has installed its recipe and its
\* first-step message is the whole log and the last value emitted.
C11_Witness ==
    /\ last_init.outcome = "installed"
    /\ last_init.had_recipe
    /\ state.recipe = Some(RecipeSoup)
    /\ state.messages = <<Msg("assistant", first_message_text(RecipeSoup), started)>>
    /\ replies.last = first_message_text(RecipeSoup)
    /\ replies.ev = started

\* C12 (as claimed): once a recipe is loaded, current_step is a valid index
\* of its instructions, 0 <= current_step < len(instructions).
C12_StepInRange ==
    state.recipe # None =>
        /\ 0 <= state.current_step
        /\ state.current_step < Len(state.recipe[1].instructions)

\* the handler of ADD_USER_MESSAGE returns after a free-text reply
FreeTextReplyStep(p) ==
    /\ pc[p] = "llm"
    /\ cur[p].e.type = "ADD_USER_MESSAGE"
    /\ pc'[p] = "idle"
    /\ state'.messages[Len(state'.messages)].role = "assistant"

MarkerFree(text) == \A k \in DOMAIN text : text[k] \notin {"[TIMER: ", "[STEP: ", "]"}

\* C13: handling ADD_USER_MESSAGE with a free-text reply: the user message is
\* already the last log entry, each timer command of the reply starts one
\* countdown (in order), a step update replaces current_step, and the
\* marker-free text is appended as an assistant message and is the one value
\* emitted.
C13_UserMessageReply ==
    [][\A p \in Producers :
          FreeTextReplyStep(p) =>
              \E tokens \in TextReplies :
                  LET timers == TimerCommands(tokens)
                      n == Len(countdowns)
                  IN  /\ state.messages[Len(state.messages)]
                            = Msg("user", <<cur[p].e.text>>, cur[p].ev)
                      /\ state'.messages
                            = Append(state.messages,
                                     Msg("assistant", CleanText(tokens), cur[p].ev))
                      /\ MarkerFree(CleanText(tokens))
                      /\ replies'.count = replies.count + 1
                      /\ replies'.last = state'.messages[Len(state'.messages)].text
                      /\ Len(countdowns') = n + Len(timers)
                      /\ \A k \in DOMAIN timers :
                            /\ countdowns'[n + k].id = timers[k].id
                            /\ countdowns'[n + k].requested = timers[k].duration
                            /\ countdowns'[n + k].tick = 0
                      /\ \A k \in 1..n : countdowns'[k].tick = countdowns[k].tick
                      /\ state'.current_step
                            = IF StepCommand(tokens) # None THEN StepCommand(tokens)[1]
                              ELSE state.current_step
                      /\ state'.recipe = state.recipe]_vars

\* C13 witness: a reply with a timer marker and a step marker was handled:
\* its marker-free text is the last log entry, after the user message, and
\* the last value emitted; the timer "x" has just started; the step is 1.
C13_Witness ==
    /\ Len(Log) >= 2
    /\ Log[Len(Log)] = Msg("assistant", <<"boil ", " now">>, started)
    /\ Log[Len(Log) - 1].role = "user"
    /\ replies.last = <<"boil ", " now">>
    /\ replies.ev = started
    /\ state.current_step = 1
    /\ \E i \in DOMAIN countdowns : countdowns[i].id = "x" /\ countdowns[i].tick = 0

\* the handler of the TIMER_EXPIRED event of countdown i runs
TimerExpiredStep(i) ==
    /\ i \in DOMAIN countdowns
    /\ countdowns[i].phase = "completed"
    /\ countdowns'[i].phase = "published"

\* C14: handling TIMER_EXPIRED(id) appends exactly one system message
\* "Timer '<id>' expired.", removes id from the state's timers if present,
\* leaves recipe and current_step unchanged, calls no model and emits no
\* reply.
C14_TimerExpiredEffect ==
    [][\A i \in 1..MaxCountdowns :
          TimerExpiredStep(i) =>
              LET id == countdowns[i].id
              IN  /\ state'.messages
                        = Append(state.messages, Msg("system", ExpiredText(id), started'))
                  /\ DOMAIN state'.timers = DOMAIN state.timers \ {id}
                  /\ \A k \in DOMAIN state'.timers : state'.timers[k] = state.timers[k]
                  /\ state'.recipe = state.recipe
                  /\ state'.current_step = state.current_step
                  /\ UNCHANGED <<replies, answered, pc, lock, stream>>]_vars

\* C14 witness: with a recipe loaded and the step at 1, the expiry of timer
\* "x" has just been handled: its message ends the log, after the reply that
\* set the timer, which is still the last value emitted.
C14_Witness ==
    /\ state.recipe = Some(RecipeSoup)
    /\ state.current_step = 1
    /\ Len(Log) >= 2
    /\ Log[Len(Log)] = Msg("system", ExpiredText("x"), started)
    /\ Log[Len(Log) - 1].role = "assistant"
    /\ replies.ev = Log[Len(Log) - 1].ev
    /\ InHandler = {}

\* C15 (as claimed): the reply stream has signalled completion exactly when
\* all three input subjects have been closed.
C15_CompletedIffAllClosed == (stream = "completed") <=> (closed = Sources)

InUpdate == {t \in DOMAIN pc : pc[t] = "write"}

\* C16: update_state calls never overlap: at most one thread is between the
\* read and the write of update_state, at most one thread is inside a handler,
\* and every write publishes the updater's result for the state that is
\* current at the write (the snapshot read is not stale), so the state is the
\* result of applying the updaters one after another.
C16_UpdatesSerialized ==
    [][/\ Cardinality(InUpdate) <= 1
       /\ started <= completed + 1
       /\ \A t \in InUpdate :
             /\ cur[t].current_state = Some(state)
             /\ pc'[t] # "write" => state' \in UpdaterResults(cur[t], state)]_vars

\* C16 witness: one thread is inside update_state after its read while the
\* two other paths have published and wait, and the log already holds the
\* entries of earlier events.
C16_Witness ==
    /\ DOMAIN pc = Threads
    /\ \E t \in Threads :
          /\ pc[t] = "write"
          /\ \A u \in Threads \ {t} : pc[u] = "blocked"
    /\ Len(state.messages) >= 2
    /\ completed >= 1

\* the pieces of a text that are of the given kinds, in order
RECURSIVE PiecesOf(_, _)
PiecesOf(pieces, kinds) ==
    IF pieces = <<>> THEN <<>>
    ELSE (IF ReplySegments[Head(pieces)].kind \in kinds THEN <<Head(pieces)>> ELSE <<>>)
         \o PiecesOf(Tail(pieces), kinds)

\* the timer commands of the well-formed timer markers of a text, in order
WellFormedTimers(pieces) ==
    [k \in DOMAIN PiecesOf(pieces, {"timer"}) |->
        [id |-> ReplySegments[PiecesOf(pieces, {"timer"})[k]].id,
         duration |-> ReplySegments[PiecesOf(pieces, {"timer"})[k]].n]]

TimersParsed == parser.phase \in {"step", "done"}

C18_BadTimerMarkerStripped ==
    (TimersParsed /\ PiecesOf(parser.pieces, {"badtimer"}) # <<>>) =>
        /\ parser.calls = WellFormedTimers(parser.pieces)
        /\ parser.timers_text
              = Concat(PiecesOf(parser.pieces, {"plain", "step", "step_update"}))

\* C19 (as claimed): a text with "[STEP: n]" markers yields one step command,
\* the n of the last marker, and none of the markers is left in the text.
C19_LastStepMarkerWins ==
    (/\ parser.phase = "done"
     /\ PiecesOf(parser.pieces, {"step"}) # <<>>
     /\ PiecesOf(parser.pieces, {"badtimer", "step_update"}) = <<>>) =>
        LET steps == PiecesOf(parser.pieces, {"step"})
        IN  /\ parser.step_events = <<ReplySegments[steps[Len(steps)]].n>>
            /\ parser.processed_text = Concat(PiecesOf(parser.pieces, {"plain"}))

\* C20: a text without markers is returned unchanged by both parsing
\* functions, with no set_timer call and no step event.
C20_NoMarkersUnchanged ==
    (parser.phase = "done" /\ PiecesOf(parser.pieces, {"plain"}) = parser.pieces) =>
        /\ parser.timers_text = parser.response_text
        /\ parser.processed_text = parser.response_text
        /\ parser.calls = <<>>
        /\ parser.step_events = <<>>

\* C20 witness: "[timer: 2 x]ok [timer: 2 x]", a text with brackets but no
\* marker, has gone through both functions.
C20_Witness ==
    /\ parser.phase = "done"
    /\ parser.pieces = <<2, 1, 2>>
    /\ parser.processed_text = Concat(<<2, 1, 2>>)
    /\ parser.match_list = <<>>

\* countdown i is the one most recently started for its id
LatestForId(i) ==
    \A j \in DOMAIN countdowns : j > i => countdowns[j].id # countdowns[i].id

\* C21 (as claimed): after a restart of an active id only the new countdown
\* counts: while the countdown most recently started for an id is running,
\* the id is in the registry and its remaining time is that countdown's
\* duration minus its ticks.
C21_RestartSupersedesOld ==
    \A i \in DOMAIN countdowns :
        (LatestForId(i) /\ countdowns[i].phase = "ticking") =>
            /\ countdowns[i].id \in DOMAIN active_timers
            /\ active_timers[countdowns[i].id] = countdowns[i].duration - countdowns[i].tick

IsPrefix(a, b) == Len(a) <= Len(b) /\ SubSeq(b, 1, Len(a)) = a

\* a step of the handler of an INIT_RECIPE event
InitRecipeStep ==
    \E p \in Producers :
        /\ cur[p].e.type = "INIT_RECIPE"
        /\ pc[p] \in {"blocked", "llm"}
        /\ pc'[p] # pc[p]

\* a handler of an event other than INIT_RECIPE that calls the model returns
OtherReplyStep(p) ==
    /\ pc[p] = "llm"
    /\ cur[p].e.type # "INIT_RECIPE"
    /\ pc'[p] = "idle"

\* C22: the log is append-only except on recipe initialization: every step
\* that is not a step of an INIT_RECIPE handler keeps the log as a prefix of
\* the new log, and when the handler of a user message returns (reply or
\* error path) the log from before the event is a prefix of the log.
C22_LogAppendOnly ==
    [][/\ ~InitRecipeStep => IsPrefix(state.messages, state'.messages)
       /\ \A p \in Producers :
             OtherReplyStep(p) =>
                 /\ IsPrefix(cur[p].before.messages, state'.messages)
                 /\ Len(state'.messages) = Len(cur[p].before.messages) + 2]_vars

\* C22 witness: on top of the log of a loaded recipe a user message was
\* answered through the error path (a reply that is no string) and a timer
\* expiry was logged: four entries, the first still the recipe's.
C22_Witness ==
    /\ Len(Log) = 4
    /\ Log[1].role = "assistant" /\ Log[1].text = first_message_text(RecipeSoup)
    /\ \E k \in 2..3 :
          /\ Log[k].role = "user"
          /\ Log[k + 1].role = "system"
          /\ Log[k + 1].text[1] = "Error: Unexpected response type from LLM: "
    /\ ExpiryMessages("x") = 1

\* the SET_TIMER branch of process_event runs for producer p's event
SetTimerStep(p) ==
    /\ pc[p] = "blocked"
    /\ cur[p].e.type = "SET_TIMER"
    /\ pc'[p] # "blocked"
    /\ started' = started + 1

\* C23: handling a direct SetTimer event delegates to the scheduler and does
\* nothing else: registry and countdowns become what set_timer makes of them,
\* the conversation state (recipe, current_step, messages, timers) is
\* unchanged, the thread does not enter a model call and no reply is emitted.
C23_SetTimerOnlyDelegates ==
    [][\A p \in Producers :
          SetTimerStep(p) =>
              /\ [active |-> active_timers', cds |-> countdowns'] =
                     set_timer(cur[p].e.timer_id, cur[p].e.duration, Registry)
              /\ state' = state
              /\ pc'[p] = "idle" /\ lock' = lock /\ answered' = answered
              /\ replies' = replies]_vars

\* C23 witness: a direct SetTimer started a countdown in the untouched
\* initial conversation: nothing was answered and no reply was emitted.
C23_Witness ==
    /\ countdowns # <<>>
    /\ completed >= 1
    /\ answered = 0
    /\ state = initial_state
    /\ replies.count = 0

\* C24 (as claimed): the marker parser is a pure function of its text:
\* parsing starts no timer (no call of set_timer_func) and publishes no
\* event (nothing is put on step_event_subject).
C24_ParserPure ==
    /\ parser.calls = <<>>
    /\ parser.step_events = <<>>

\* the text holds the string send_prompt returns for a caught failure
HoldsFailureString(text) == \E k \in DOMAIN text : text[k] = ReplyError[1].s

\* the handler of producer p's event returns from a model call that failed
ModelFailureStep(p) ==
    /\ pc[p] = "llm"
    /\ pc'[p] = "idle"
    /\ HoldsFailureString(replies'.last)

\* C25 (as claimed): a failed model call is handled the same way for
\* INIT_RECIPE and ADD_USER_MESSAGE: the error text is appended to the log
\* as a system message and is the one reply of the event.
C25_ModelFailureLoggedAsSystemError ==
    [][\A p \in Producers :
          ModelFailureStep(p) =>
              /\ replies'.count = replies.count + 1
              /\ replies'.ev = cur[p].ev
              /\ state'.messages = Append(state.messages,
                                          Msg("system", replies'.last, cur[p].ev))]_vars

\* the ids that have a countdown still running
RunningIds == {countdowns[i].id : i \in {j \in DOMAIN countdowns : countdowns[j].phase = "ticking"}}

\* C26 (as claimed): the keys of the registry are the ids that have a
\* countdown still running, restarts of an active id included.
C26_RegistryKeysAreRunningIds == DOMAIN active_timers = RunningIds

\* the assistant messages in the log that came from a reply with a timer marker
TimerReplyMessages ==
    {k \in DOMAIN Log : Log[k].role = "assistant" /\ Log[k].text = CleanText(ReplyTimer)}

\* C27: the expiry message of a timer started by a reply's marker comes after
\* that reply's assistant message.  In the reply runs countdown i is started
\* by the i-th reply with a timer marker: when its TIMER_EXPIRED handler runs,
\* no handler is between starting timers and appending its assistant message,
\* the i-th such assistant message is in the log, and the expiry message is
\* appended behind it.
C27_ExpiryAfterStartingReply ==
    [][\A i \in 1..MaxCountdowns :
          TimerExpiredStep(i) =>
              /\ \A p \in Producers : pc[p] # "reply"
              /\ Cardinality(TimerReplyMessages) >= i
              /\ state'.messages = Append(state.messages, state'.messages[Len(state'.messages)])
              /\ state'.messages[Len(state'.messages)].text = ExpiredText(countdowns[i].id)]_vars

\* C27 witness: the first reply's countdown has expired and its message sits
\* behind that reply's assistant message, while the second reply's countdown
\* has already completed before the second assistant message is appended.
C27_Witness ==
    /\ Len(countdowns) = 2
    /\ countdowns[1].phase = "published"
    /\ countdowns[2].phase = "completed"
    /\ \E p \in Producers : pc[p] = "reply"
    /\ Cardinality(TimerReplyMessages) = 1
    /\ \E j \in TimerReplyMessages, k \in DOMAIN Log :
          j < k /\ Log[k].role = "system" /\ Log[k].text = ExpiredText("x")

\* C28 (as claimed): prompt construction is defined for every reachable
\* conversation state: whatever current_step a reply's step marker has
\* stored, build_prompt_from_state reads only instruction indices that exist.
C28_PromptAlwaysDefined ==
    /\ ~BuildPromptRaises(state)
    /\ state.recipe # None =>
          \A i \in PromptReads(state) : ValidIndex(i, Len(state.recipe[1].instructions))

\* C29: the timers map of the conversation state is empty in every reachable
\* state, whatever timers the scheduler runs: no handler adds an entry.
C29_StateTimersEmpty == state.timers = EmptyDict

\* C29 witness: a reply's marker started a countdown that is registered with
\* the scheduler and still running, the assistant message is in the log, and
\* the state's timers map is empty.
C29_Witness ==
    /\ state.timers = EmptyDict
    /\ "x" \in DOMAIN active_timers
    /\ \E i \in DOMAIN countdowns : countdowns[i].phase = "ticking"
    /\ state.recipe # None
    /\ \E k \in DOMAIN Log :
          Log[k].role = "assistant" /\ Log[k].text = CleanText(ReplyTimer)

====
